---------------------------- MODULE Spec2Model ----------------------------
(***************************************************************************)
(* A model of the entity reconciliation and normalisation code of          *)
(* gutbrainie_2025_submission:                                             *)
(*   src/postprocessing/combine_ensemble_1_preds.py  (ensemble reconciler) *)
(*   src/postprocessing/threshold_class.py  (threshold filter, merger)     *)
(*   src/postprocessing/postprocessing_rules.py  (span extension rules)    *)
(*                                                                         *)
(* Python values are modelled as follows.  A dict keyed by PMID is a       *)
(* function whose DOMAIN is its key set; a list is a sequence; a text is a *)
(* sequence of one-character strings, so that slicing, find and lstrip are *)
(* computed character by character.  Scores and thresholds are integers    *)
(* (hundredths).  Each component has its own specification: its Init draws *)
(* the arguments of the call from bounded sets and its actions are the     *)
(* calls, each modelled whole.  The variables of the components a          *)
(* specification does not exercise stay at their idle values.              *)
(***************************************************************************)
EXTENDS Integers, Sequences, FiniteSets, TLC

VARIABLES
    pc,             \* position of the driver: "start", then one value per call made
    span1, span2,   \* arguments of spans_overlap
    overlap,        \* value returned by spans_overlap
    base_dict,      \* the caller's base prediction dict (records are mutated in place)
    class_dict,     \* the higher-precision prediction dict
    class_label,    \* the label argument of the call
    base_before,    \* base_dict as it was when the call was made
    final,          \* the dict returned by the call
    third_dict,     \* a third prediction dict, for merges of three
    final2,         \* the dict returned by a second evaluation
    replace_labels, \* the label list a __main__ loop runs over
    labels_done,    \* how many labels of replace_labels the loop has processed
    base_loaded,    \* the base dict as json.load returned it, before the loop
    ner_predictions,\* threshold_class.py __main__: the raw predictions, then each stage's result
    thresholds,     \* threshold_class.py __main__: the unpickled label -> threshold dict
    ner_before,     \* ner_predictions as it was when the call was made
    raised,         \* the exception that ended the call, None when it returned
    data,           \* postprocessing_rules.py __main__: the loaded prediction dict
    data_before,    \* data as it was when the call was made
    stats           \* the Counter of the last rule call, summed over the records

OverlapVars == <<span1, span2, overlap>>
LoopVars    == <<third_dict, final2, replace_labels, labels_done, base_loaded>>
ReconVars   == <<base_dict, class_dict, class_label, base_before, final, LoopVars>>
ThreshVars  == <<ner_predictions, thresholds, ner_before, raised>>
RuleVars    == <<data, data_before, stats>>
vars        == <<pc, OverlapVars, ReconVars, ThreshVars, RuleVars>>

None == "None"

IdleOverlap == span1 = None /\ span2 = None /\ overlap = None
IdleLoop    == /\ third_dict = None /\ final2 = None /\ replace_labels = None
               /\ labels_done = None /\ base_loaded = None
IdleRecon   == /\ base_dict = None /\ class_dict = None /\ class_label = None
               /\ base_before = None /\ final = None /\ IdleLoop
IdleThresh  == /\ ner_predictions = None /\ thresholds = None
               /\ ner_before = None /\ raised = None
IdleRules   == data = None /\ data_before = None /\ stats = None

----------------------------------------------------------------------------
(* Generic helpers for Python lists and dicts.                             *)

Range(s) == { s[i] : i \in 1..Len(s) }

SeqsUpTo(S, n) == UNION { [1..k -> S] : k \in 0..n }

Min(a, b) == IF a <= b THEN a ELSE b

Locations == {"title", "abstract"}

----------------------------------------------------------------------------
(* Overlap Detector: combine_ensemble_1_preds.py, spans_overlap.           *)

MaxIdx == 3

\* Bug variant: the comparisons are strict, so abutting spans count as overlapping.
spans_overlap_strict(s1, s2) ==
    IF s1.location # s2.location
    THEN FALSE
    ELSE ~(s1.end_idx < s2.start_idx \/ s2.end_idx < s1.start_idx)

spans_overlap(s1, s2) ==
    IF s1.location # s2.location
    THEN FALSE
    ELSE ~(s1.end_idx <= s2.start_idx \/ s2.end_idx <= s1.start_idx)

\* The spans handed to spans_overlap: start_idx <= end_idx, empty spans included.
OverlapSpans ==
    { [location |-> l, start_idx |-> s, end_idx |-> e] :
        l \in Locations, s \in 0..MaxIdx, e \in 0..MaxIdx }

InitOverlap ==
    /\ pc = "start"
    /\ span1 \in { s \in OverlapSpans : s.start_idx <= s.end_idx }
    /\ span2 \in { s \in OverlapSpans : s.start_idx <= s.end_idx }
    /\ overlap = None
    /\ IdleRecon /\ IdleThresh /\ IdleRules

SpansOverlapCall ==
    /\ pc = "start"
    /\ overlap' = spans_overlap(span1, span2)
    /\ pc' = "done"
    /\ UNCHANGED <<span1, span2, ReconVars, ThreshVars, RuleVars>>

NextOverlap == SpansOverlapCall

SpecOverlap == InitOverlap /\ [][NextOverlap]_vars

\* The character positions of the half-open range [start_idx, end_idx).
Positions(s) == { p \in 0..MaxIdx : s.start_idx <= p /\ p < s.end_idx }

SharePosition(a, b) == Positions(a) \cap Positions(b) # {}

NonEmpty(s) == s.start_idx < s.end_idx

(* C3 as stated: for all spans with start_idx <= end_idx, empty ones       *)
(* included, spans_overlap(a, b) is true exactly when a and b have the     *)
(* same location and their half-open ranges share a character position.    *)
C3_Original ==
    pc = "done" =>
        overlap = (span1.location = span2.location /\ SharePosition(span1, span2))

(* C3 amended: spans_overlap(a, b) is true exactly when the locations are  *)
(* equal and a.start_idx < b.end_idx and b.start_idx < a.end_idx; spans of *)
(* differing location never overlap; for two non-empty spans this is       *)
(* exactly sharing a character position, and an empty span overlaps b      *)
(* exactly when it lies strictly inside b's range (sharing no position).   *)
C3_Overlap ==
    pc = "done" =>
        /\ overlap \in BOOLEAN
        /\ span1.location # span2.location => overlap = FALSE
        /\ overlap = ( /\ span1.location = span2.location
                       /\ span1.end_idx > span2.start_idx
                       /\ span2.end_idx > span1.start_idx )
        /\ (NonEmpty(span1) /\ NonEmpty(span2)) =>
              overlap = (span1.location = span2.location /\ SharePosition(span1, span2))
        /\ (~NonEmpty(span1) /\ span1.location = span2.location) =>
              overlap = (span2.start_idx < span1.start_idx /\ span1.end_idx < span2.end_idx)

\* Two distinct non-empty spans of one location that share a position were compared.
C3_Witness ==
    /\ pc = "done"
    /\ overlap = TRUE
    /\ span1 # span2
    /\ NonEmpty(span1) /\ NonEmpty(span2)
    /\ SharePosition(span1, span2)

----------------------------------------------------------------------------
(* Ensemble Reconciler: combine_ensemble_1_preds.py.                       *)
(* A record is [metadata, entities, relations]; an entity is               *)
(* [start_idx, end_idx, location, label] (text_span is never read by the   *)
(* reconciler and is left out).                                            *)

Docs == {"d1", "d2"}

Labels == {"human", "gene"}

MaxEnts == 3

\* Half-open ranges: the title spans [0,2) and [1,3) overlap, and the abstract span
\* has the numbers of a title span.
ReconSpans ==
    { <<"title", 0, 2>>, <<"title", 1, 3>>, <<"abstract", 1, 3>> }

ReconEntities ==
    { [start_idx |-> sp[2], end_idx |-> sp[3], location |-> sp[1], label |-> lb] :
        sp \in ReconSpans, lb \in Labels }

\* The prediction dicts json.load can hand to the reconciler: the documents of
\* `docs` or some of them, exactly n entities in all.
RECURSIVE PredictionDicts(_, _, _)
PredictionDicts(meta, docs, n) ==
    IF docs = {}
    THEN IF n = 0 THEN { <<>> } ELSE {}
    ELSE LET pmid == CHOOSE k \in docs : TRUE
             rest == docs \ {pmid}
         IN  PredictionDicts(meta, rest, n)
             \cup UNION { { (pmid :> [metadata |-> meta, entities |-> es,
                                      relations |-> <<>>]) @@ d :
                              es \in [1..m -> ReconEntities],
                              d \in PredictionDicts(meta, rest, n - m) } :
                          m \in 0..n }

EntitiesOf(d, pmid) == IF pmid \in DOMAIN d THEN d[pmid].entities ELSE <<>>

extract_class_predictions(data_dict, lb) ==
    LET matching(pmid) == SelectSeq(data_dict[pmid].entities, LAMBDA e : e.label = lb)
        kept == { pmid \in DOMAIN data_dict : matching(pmid) # <<>> }
    IN  [pmid \in kept |-> [data_dict[pmid] EXCEPT !.entities = matching(pmid)]]

\* Bug variant: only the first interfering entity is compared.
OverlapsFirst(e, interference) ==
    interference # <<>> /\ spans_overlap(e, interference[1])

OverlapsAny(e, interference) ==
    \E i \in 1..Len(interference) : spans_overlap(e, interference[i])

\* Bug variant: an entity is dropped only when it overlaps every interfering entity.
remove_overlapping_preds_all(b, interfering_entities) ==
    [pmid \in DOMAIN b |->
        LET interference == EntitiesOf(interfering_entities, pmid)
        IN  IF interference = <<>>
            THEN b[pmid]
            ELSE [b[pmid] EXCEPT !.entities =
                    SelectSeq(@, LAMBDA e :
                        ~(\A i \in 1..Len(interference) :
                              spans_overlap(e, interference[i])))]]

\* Bug variant: a document without interfering entities loses its entities.
remove_overlapping_preds_clear_absent(b, interfering_entities) ==
    [pmid \in DOMAIN b |->
        LET interference == EntitiesOf(interfering_entities, pmid)
        IN  [b[pmid] EXCEPT !.entities =
                SelectSeq(@, LAMBDA e : interference # <<>>
                                        /\ ~OverlapsAny(e, interference))]]

remove_overlapping_preds(b, interfering_entities) ==
    [pmid \in DOMAIN b |->
        LET interference == EntitiesOf(interfering_entities, pmid)
        IN  IF interference = <<>>
            THEN b[pmid]
            ELSE [b[pmid] EXCEPT !.entities =
                    SelectSeq(@, LAMBDA e : ~OverlapsAny(e, interference))]]

add_extracted_predictions(b, extracted_dict) ==
    [pmid \in DOMAIN b \cup DOMAIN extracted_dict |->
        IF pmid \in DOMAIN extracted_dict
        THEN LET base_record ==
                    IF pmid \in DOMAIN b
                    THEN b[pmid]
                    ELSE [metadata |-> extracted_dict[pmid].metadata,
                          entities |-> <<>>, relations |-> <<>>]
             IN  [base_record EXCEPT !.entities = @ \o extracted_dict[pmid].entities]
        ELSE b[pmid]]

\* Bug variant: a document left without entities is dropped.
remove_class_predictions_drop_empty(data_dict, lb) ==
    LET rest(pmid) == SelectSeq(data_dict[pmid].entities, LAMBDA e : e.label # lb)
        kept == { pmid \in DOMAIN data_dict : rest(pmid) # <<>> }
    IN  [pmid \in kept |-> [data_dict[pmid] EXCEPT !.entities = rest(pmid)]]

remove_class_predictions(data_dict, lb) ==
    [pmid \in DOMAIN data_dict |->
        [data_dict[pmid] EXCEPT !.entities = SelectSeq(@, LAMBDA e : e.label # lb)]]

\* Bug variant: the label is stripped from the base before the overlap removal.
overwrite_predictions_strip_first(b, c, lb) ==
    LET extracted == extract_class_predictions(c, lb)
        cleaned   == remove_overlapping_preds(remove_class_predictions(b, lb), extracted)
    IN  add_extracted_predictions(cleaned, extracted)

overwrite_predictions_for_class(b, c, lb) ==
    LET extracted == extract_class_predictions(c, lb)
        cleaned   == remove_overlapping_preds(b, extracted)
    IN  add_extracted_predictions(cleaned, extracted)

\* base_dict.copy() is shallow: the records of the caller's dict are the records of
\* the returned dict, so the caller sees their new entity lists; keys added to the
\* copy are not keys of the caller's dict.
SharedRecords(caller_dict, returned) ==
    [pmid \in DOMAIN caller_dict |-> returned[pmid]]

\* Scenario B: base holds X, 'gene' at [10,15); source holds Y, 'human' at [12,18).
ScenarioB_X == [start_idx |-> 10, end_idx |-> 15, location |-> "abstract", label |-> "gene"]
ScenarioB_Y == [start_idx |-> 12, end_idx |-> 18, location |-> "abstract", label |-> "human"]

ScenarioB_base ==
    [d1 |-> [metadata |-> "base", entities |-> <<ScenarioB_X>>, relations |-> <<>>]]

ScenarioB_source ==
    [d1 |-> [metadata |-> "class", entities |-> <<ScenarioB_Y>>, relations |-> <<>>]]

InitOverwrite ==
    /\ pc = "start"
    /\ \/ \E nb \in 0..MaxEnts, nc \in 0..MaxEnts :
            /\ nb + nc <= MaxEnts
            /\ base_dict \in PredictionDicts("base", Docs, nb)
            /\ class_dict \in PredictionDicts("class", Docs, nc)
       \/ (base_dict = ScenarioB_base /\ class_dict = ScenarioB_source)
    /\ class_label = None
    /\ base_before = None
    /\ final = None
    /\ IdleLoop
    /\ IdleOverlap /\ IdleThresh /\ IdleRules

OverwriteCall ==
    /\ pc = "start"
    /\ \E lb \in Labels :
        /\ class_label' = lb
        /\ final' = overwrite_predictions_for_class(base_dict, class_dict, lb)
    /\ base_before' = base_dict
    /\ base_dict' = SharedRecords(base_dict, final')
    /\ pc' = "overwritten"
    /\ UNCHANGED <<class_dict, LoopVars, OverlapVars, ThreshVars, RuleVars>>

NextOverwrite == OverwriteCall

SpecOverwrite == InitOverwrite /\ [][NextOverwrite]_vars

\* source's entities of the call's label in document pmid, in source order
ClassEntities(pmid) ==
    SelectSeq(EntitiesOf(class_dict, pmid), LAMBDA e : e.label = class_label)

\* the part of a result document that precedes the appended source entities
BasePart(pmid) ==
    SubSeq(final[pmid].entities, 1,
           Len(final[pmid].entities) - Len(ClassEntities(pmid)))

(* C1 as stated: after overwrite_predictions_for_class(base, source, L)    *)
(* every entity labelled L of every result document is one of source's     *)
(* L-entities for that document.                                           *)
C1_Original ==
    pc = "overwritten" =>
        \A pmid \in DOMAIN final :
            \A e \in Range(final[pmid].entities) :
                e.label = class_label => e \in Range(ClassEntities(pmid))

(* C1 amended: only the base entities that overlap one of source's         *)
(* L-entities of the same document are discarded; every entity labelled L  *)
(* of a result document is one of source's L-entities for that document or *)
(* a base L-entity that overlaps none of them, and every such base         *)
(* L-entity is kept (all of them in documents where source has no          *)
(* L-entity).                                                              *)
C1_OverwriteKeepsFreeLabel ==
    pc = "overwritten" =>
        /\ \A pmid \in DOMAIN final :
            \A e \in Range(final[pmid].entities) :
                e.label = class_label =>
                    \/ e \in Range(ClassEntities(pmid))
                    \/ /\ e \in Range(EntitiesOf(base_before, pmid))
                       /\ ~OverlapsAny(e, ClassEntities(pmid))
        /\ \A pmid \in DOMAIN base_before :
            /\ pmid \in DOMAIN final
            /\ \A e \in Range(base_before[pmid].entities) :
                (e.label = class_label /\ ~OverlapsAny(e, ClassEntities(pmid)))
                    => e \in Range(BasePart(pmid))

\* A base entity of the call's label survived next to a source entity of that label.
C1_Witness ==
    /\ pc = "overwritten"
    /\ \E pmid \in DOMAIN final :
        /\ ClassEntities(pmid) # <<>>
        /\ \E e \in Range(BasePart(pmid)) :
            e.label = class_label /\ e \notin Range(ClassEntities(pmid))

(* C2: in the result of overwrite_predictions_for_class(base, source, L)   *)
(* no entity that came from base overlaps an L-entity of source in the     *)
(* same document, the entities that came from base are base's              *)
(* non-overlapping entities in base order, and source's L-entities are all *)
(* present, in source order, after them.                                   *)
C2_OverwriteNoOverlap ==
    pc = "overwritten" =>
        /\ DOMAIN final =
              DOMAIN base_before \cup { p \in DOMAIN class_dict : ClassEntities(p) # <<>> }
        /\ \A pmid \in DOMAIN final :
            LET ents == final[pmid].entities
                src  == ClassEntities(pmid)
                k    == Len(ents) - Len(src)
            IN  /\ k >= 0
                /\ SubSeq(ents, k + 1, Len(ents)) = src
                /\ \A i \in 1..k : ~OverlapsAny(ents[i], src)
                /\ BasePart(pmid) =
                      SelectSeq(EntitiesOf(base_before, pmid),
                                LAMBDA e : \A j \in 1..Len(src) : ~spans_overlap(e, src[j]))

\* Scenario B happened: X, overlapping Y, is gone and Y is in the result.
C2_Witness ==
    /\ pc = "overwritten"
    /\ base_before = ScenarioB_base
    /\ class_dict = ScenarioB_source
    /\ class_label = "human"
    /\ final["d1"].entities = <<ScenarioB_Y>>

----------------------------------------------------------------------------
(* Ensemble Reconciler: merge_prediction_dicts, merged three at a time.    *)

MaxAssocEnts == 3

\* merge_prediction_dicts never reads an entity: two distinguishable ones suffice.
AssocEntities == { e \in ReconEntities : e.location = "title" /\ e.start_idx = 0 }

\* As PredictionDicts, the entities drawn from `entities`.
RECURSIVE DictsOver(_, _, _, _)
DictsOver(meta, docs, n, entities) ==
    IF docs = {}
    THEN IF n = 0 THEN { <<>> } ELSE {}
    ELSE LET pmid == CHOOSE k \in docs : TRUE
             rest == docs \ {pmid}
         IN  DictsOver(meta, rest, n, entities)
             \cup UNION { { (pmid :> [metadata |-> meta, entities |-> es,
                                      relations |-> <<>>]) @@ d :
                              es \in [1..m -> entities],
                              d \in DictsOver(meta, rest, n - m, entities) } :
                          m \in 0..n }

\* Bug variant: on a key of both dicts the record of class_dict wins.
merge_prediction_dicts_class_first(b, c) ==
    [pmid \in DOMAIN b \cup DOMAIN c |->
        IF pmid \in DOMAIN c
        THEN IF pmid \in DOMAIN b
             THEN [c[pmid] EXCEPT !.entities = b[pmid].entities \o @]
             ELSE c[pmid]
        ELSE b[pmid]]

\* The dict returned: lines 128-136.
merge_prediction_dicts(b, c) ==
    [pmid \in DOMAIN b \cup DOMAIN c |->
        IF pmid \in DOMAIN b
        THEN IF pmid \in DOMAIN c
             THEN [b[pmid] EXCEPT !.entities = @ \o c[pmid].entities]
             ELSE b[pmid]
        ELSE c[pmid]]

\* The three operands; each grouping below is evaluated on its own freshly loaded
\* copy of them, so the variables keep the loaded values.
InitAssoc ==
    /\ pc = "start"
    /\ \E na \in 0..MaxAssocEnts, nb \in 0..MaxAssocEnts, nc \in 0..MaxAssocEnts :
        /\ na + nb + nc <= MaxAssocEnts
        /\ base_dict \in DictsOver("a", Docs, na, AssocEntities)
        /\ class_dict \in DictsOver("b", Docs, nb, AssocEntities)
        /\ third_dict \in DictsOver("c", Docs, nc, AssocEntities)
    /\ class_label = None
    /\ base_before = None
    /\ final = None
    /\ final2 = None
    /\ replace_labels = None
    /\ labels_done = None
    /\ base_loaded = None
    /\ IdleOverlap /\ IdleThresh /\ IdleRules

\* merge(merge(a, b), c)
MergeLeftCall ==
    /\ pc = "start"
    /\ final' = merge_prediction_dicts(merge_prediction_dicts(base_dict, class_dict),
                                       third_dict)
    /\ pc' = "left"
    /\ UNCHANGED <<base_dict, class_dict, class_label, base_before, third_dict, final2,
                   replace_labels, labels_done, base_loaded,
                   OverlapVars, ThreshVars, RuleVars>>

\* merge(a, merge(b, c))
MergeRightCall ==
    /\ pc = "left"
    /\ final2' = merge_prediction_dicts(base_dict,
                                        merge_prediction_dicts(class_dict, third_dict))
    /\ pc' = "both"
    /\ UNCHANGED <<base_dict, class_dict, class_label, base_before, third_dict, final,
                   replace_labels, labels_done, base_loaded,
                   OverlapVars, ThreshVars, RuleVars>>

NextAssoc == MergeLeftCall \/ MergeRightCall

SpecAssoc == InitAssoc /\ [][NextAssoc]_vars

\* the first of the dicts of `dicts` that has the key
FirstWith(dicts, pmid) ==
    dicts[CHOOSE i \in 1..Len(dicts) :
            /\ pmid \in DOMAIN dicts[i]
            /\ \A j \in 1..(i - 1) : pmid \notin DOMAIN dicts[j]]

(* C12: merge(merge(a,b),c) and merge(a,merge(b,c)), each evaluated from   *)
(* fresh inputs, are equal: their keys are the union of the three key      *)
(* sets; for every key the entities are a's, then b's, then c's, with no   *)
(* dedup; the non-entity fields are those of the first of a, b, c that     *)
(* has the key.                                                            *)
C12_MergeAssociative ==
    pc = "both" =>
        /\ final = final2
        /\ DOMAIN final = DOMAIN base_dict \cup DOMAIN class_dict \cup DOMAIN third_dict
        /\ \A pmid \in DOMAIN final :
            LET first == FirstWith(<<base_dict, class_dict, third_dict>>, pmid)
            IN  /\ final[pmid].entities =
                      EntitiesOf(base_dict, pmid) \o EntitiesOf(class_dict, pmid)
                          \o EntitiesOf(third_dict, pmid)
                /\ final[pmid].metadata = first[pmid].metadata
                /\ final[pmid].relations = first[pmid].relations

\* All three dicts hold one document with an entity each, two of the entities equal,
\* and merge(a, b) differs from merge(b, a) in the metadata of that document.
C12_Witness ==
    /\ pc = "both"
    /\ \E pmid \in DOMAIN base_dict \cap DOMAIN class_dict \cap DOMAIN third_dict :
        /\ Len(base_dict[pmid].entities) = 1
        /\ class_dict[pmid].entities = base_dict[pmid].entities
        /\ Len(third_dict[pmid].entities) = 1
        /\ Len(final[pmid].entities) = 3
        /\ merge_prediction_dicts(base_dict, class_dict)[pmid].metadata
              # merge_prediction_dicts(class_dict, base_dict)[pmid].metadata
        /\ merge_prediction_dicts(base_dict, class_dict)[pmid].entities
              = merge_prediction_dicts(class_dict, base_dict)[pmid].entities

----------------------------------------------------------------------------
(* Ensemble Reconciler: what merge_prediction_dicts and                    *)
(* overwrite_predictions_for_class leave in their arguments, seen by       *)
(* calling each a second time with the same argument objects.              *)

\* record.copy() is shallow: a copied record of base_dict has base_dict's own entity
\* list, so the extend of line 134 is seen through the caller's record too.
SharedEntities(caller_dict, returned) ==
    [pmid \in DOMAIN caller_dict |->
        [caller_dict[pmid] EXCEPT !.entities = returned[pmid].entities]]

MergeDictsCall ==
    /\ pc = "start"
    /\ final' = merge_prediction_dicts(base_dict, class_dict)
    /\ base_before' = base_dict
    /\ base_dict' = SharedEntities(base_dict, final')
    /\ pc' = "merged_dicts"
    /\ UNCHANGED <<class_dict, class_label, LoopVars, OverlapVars, ThreshVars, RuleVars>>

MergeDictsAgain ==
    /\ pc = "merged_dicts"
    /\ final2' = merge_prediction_dicts(base_dict, class_dict)
    /\ base_dict' = SharedEntities(base_dict, final2')
    /\ pc' = "merged_dicts_twice"
    /\ UNCHANGED <<class_dict, class_label, base_before, final, third_dict,
                   replace_labels, labels_done, base_loaded,
                   OverlapVars, ThreshVars, RuleVars>>

OverwriteAgain ==
    /\ pc = "overwritten"
    /\ final2' = overwrite_predictions_for_class(base_dict, class_dict, class_label)
    /\ base_dict' = SharedRecords(base_dict, final2')
    /\ pc' = "overwritten_twice"
    /\ UNCHANGED <<class_dict, class_label, base_before, final, third_dict,
                   replace_labels, labels_done, base_loaded,
                   OverlapVars, ThreshVars, RuleVars>>

NextTwice == MergeDictsCall \/ MergeDictsAgain \/ OverwriteCall \/ OverwriteAgain

SpecTwice == InitOverwrite /\ [][NextTwice]_vars

(* C13: after merge_prediction_dicts(base, addition) and after             *)
(* overwrite_predictions_for_class(base, source, label) the entity list of *)
(* every document of the base argument is what it was before the call, and *)
(* a second call with the same arguments returns what the first returned.  *)
C13_ArgumentsUnchanged ==
    /\ pc \in {"merged_dicts", "overwritten"} =>
          \A pmid \in DOMAIN base_before :
              base_dict[pmid].entities = base_before[pmid].entities
    /\ pc \in {"merged_dicts_twice", "overwritten_twice"} => final2 = final

----------------------------------------------------------------------------
(* Ensemble Reconciler: remove_overlapping_preds called on its own, with   *)
(* any interfering dict (documents without entities included).             *)

\* remove_overlapping_preds rewrites the records of base_dict and returns base_dict.
RemoveOverlappingCall ==
    /\ pc = "start"
    /\ final' = remove_overlapping_preds(base_dict, class_dict)
    /\ base_before' = base_dict
    /\ base_dict' = final'
    /\ pc' = "cleaned"
    /\ UNCHANGED <<class_dict, class_label, LoopVars, OverlapVars, ThreshVars, RuleVars>>

NextRemoveOverlapping == RemoveOverlappingCall

SpecRemoveOverlapping == InitOverwrite /\ [][NextRemoveOverlapping]_vars

NoInterference(pmid) ==
    pmid \notin DOMAIN class_dict \/ class_dict[pmid].entities = <<>>

(* C14: remove_overlapping_preds(target, interfering) returns a dict with  *)
(* every document of target, and a target document whose id is absent from *)
(* interfering, or whose interfering document has no entities, is returned *)
(* exactly as it was.                                                      *)
C14_MissingReferenceAbsorbed ==
    pc = "cleaned" =>
        /\ DOMAIN final = DOMAIN base_before
        /\ \A pmid \in DOMAIN base_before :
              NoInterference(pmid) => final[pmid] = base_before[pmid]

\* One target document is absent from interfering and kept its entity, another has an
\* interfering document without entities and kept its entity, or lost one to an overlap.
C14_Witness ==
    /\ pc = "cleaned"
    /\ \E p, q \in DOMAIN base_before :
        /\ p # q
        /\ p \notin DOMAIN class_dict
        /\ base_before[p].entities # <<>>
        /\ final[p].entities = base_before[p].entities
        /\ q \in DOMAIN class_dict
        /\ base_before[q].entities # <<>>
        /\ \/ class_dict[q].entities = <<>> /\ final[q].entities = base_before[q].entities
           \/ class_dict[q].entities # <<>> /\ final[q].entities = <<>>

----------------------------------------------------------------------------
(* Ensemble Reconciler: the replace_labels loops of the __main__ blocks.   *)
(* base_dict is the variable the loop reassigns (base_preds, model_4_preds *)
(* or ensemble_2_preds), class_dict the dict the labels are taken from.    *)

\* The label lists of the loops are lists of distinct labels.
LabelLists ==
    { ls \in [1..Cardinality(Labels) -> Labels] :
        \A i, j \in 1..Cardinality(Labels) : i # j => ls[i] # ls[j] }

\* combine_ensemble_1_preds.py lines 175-178: the body of the second loop.
ReplaceClass(base_preds, source, label) ==
    LET class_preds == extract_class_predictions(source, label)
        removed     == remove_class_predictions(base_preds, label)
    IN  merge_prediction_dicts(removed, class_preds)

\* Bug variant: the records merged are those from before the overlap removal.
ReplaceOverlappingUncleaned(base_preds, source, label) ==
    LET class_preds == extract_class_predictions(source, label)
        removed     == remove_class_predictions(base_preds, label)
    IN  merge_prediction_dicts(removed, class_preds)

\* combine_ensemble_1_preds.py lines 160-164, combine_ensemble_2_preds.py lines
\* 24-28, combine_ensemble_3_preds.py lines 24-29: the body of the loop.
ReplaceOverlapping(base_preds, source, label) ==
    LET class_preds == extract_class_predictions(source, label)
        removed     == remove_class_predictions(base_preds, label)
        cleaned     == remove_overlapping_preds(removed, class_preds)
    IN  merge_prediction_dicts(cleaned, class_preds)

InitReplace ==
    /\ pc = "start"
    /\ \E nb \in 0..MaxEnts, nc \in 0..MaxEnts :
        /\ nb + nc <= MaxEnts
        /\ base_dict \in PredictionDicts("base", Docs, nb)
        /\ class_dict \in PredictionDicts("class", Docs, nc)
    /\ replace_labels \in LabelLists
    /\ labels_done = 0
    /\ base_loaded = base_dict
    /\ class_label = None
    /\ base_before = None
    /\ final = None
    /\ third_dict = None
    /\ final2 = None
    /\ IdleOverlap /\ IdleThresh /\ IdleRules

\* One pass of `for label in replace_labels` with the overlap removal.
ReplaceOverlappingStep ==
    /\ pc \in {"start", "replaced"}
    /\ labels_done < Len(replace_labels)
    /\ class_label' = replace_labels[labels_done + 1]
    /\ base_before' = base_dict
    /\ base_dict' = ReplaceOverlapping(base_dict, class_dict, class_label')
    /\ labels_done' = labels_done + 1
    /\ pc' = "replaced"
    /\ UNCHANGED <<class_dict, final, third_dict, final2, replace_labels, base_loaded,
                   OverlapVars, ThreshVars, RuleVars>>

NextReplaceOverlapping == ReplaceOverlappingStep

SpecReplaceOverlapping == InitReplace /\ [][NextReplaceOverlapping]_vars

\* One pass of `for label in replace_labels` without the overlap removal.
ReplaceClassStep ==
    /\ pc \in {"start", "replaced"}
    /\ labels_done < Len(replace_labels)
    /\ class_label' = replace_labels[labels_done + 1]
    /\ base_before' = base_dict
    /\ base_dict' = ReplaceClass(base_dict, class_dict, class_label')
    /\ labels_done' = labels_done + 1
    /\ pc' = "replaced"
    /\ UNCHANGED <<class_dict, final, third_dict, final2, replace_labels, base_loaded,
                   OverlapVars, ThreshVars, RuleVars>>

NextReplaceClass == ReplaceClassStep

SpecReplaceClass == InitReplace /\ [][NextReplaceClass]_vars

WithLabel(ents, lb)    == SelectSeq(ents, LAMBDA e : e.label = lb)
WithoutLabel(ents, lb) == SelectSeq(ents, LAMBDA e : e.label # lb)

(* C17: after a replace_class step for L (remove L from base, merge with   *)
(* source's L-entities) the result has base's documents and source's       *)
(* documents with an L-entity; in every result document the entities       *)
(* labelled L are exactly source's L-entities in source order, and the     *)
(* entities of other labels are base's, in base order and unchanged, also  *)
(* those that overlap a source L-entity; so a base document with no source *)
(* L-entity is kept with its L-entities removed.                           *)
C17_ReplaceClass ==
    pc = "replaced" =>
        /\ DOMAIN base_dict =
              DOMAIN base_before \cup { p \in DOMAIN class_dict : ClassEntities(p) # <<>> }
        /\ \A pmid \in DOMAIN base_dict :
            LET ents == base_dict[pmid].entities
                old  == EntitiesOf(base_before, pmid)
            IN  /\ WithLabel(ents, class_label) = ClassEntities(pmid)
                /\ WithoutLabel(ents, class_label) = WithoutLabel(old, class_label)
                /\ ents = WithoutLabel(old, class_label) \o ClassEntities(pmid)

\* A base entity of another label that overlaps a source L-entity was retained, and
\* a base L-entity was replaced.
C17_Witness ==
    /\ pc = "replaced"
    /\ \E pmid \in DOMAIN base_before :
        /\ \E e \in Range(base_before[pmid].entities) :
            /\ e.label # class_label
            /\ OverlapsAny(e, ClassEntities(pmid))
            /\ e \in Range(base_dict[pmid].entities)
        /\ \E e \in Range(base_before[pmid].entities) :
            /\ e.label = class_label
            /\ e \notin Range(base_dict[pmid].entities)

\* source's entities labelled replace_labels[i] in document pmid that overlap none of
\* source's entities labelled replace_labels[j] for i < j <= k
Unchallenged(pmid, i, k) ==
    SelectSeq(WithLabel(EntitiesOf(class_dict, pmid), replace_labels[i]),
              LAMBDA e : \A j \in (i + 1)..k :
                  ~OverlapsAny(e, WithLabel(EntitiesOf(class_dict, pmid),
                                            replace_labels[j])))

(* C18: after the overlap-removing replace step has run for the labels     *)
(* L1..Lk of the list, in that order, the entities labelled Li of every    *)
(* document are exactly source's Li-entities that overlap no Lj-entity of  *)
(* source with i < j <= k: all of source's Lk-entities are present, and an *)
(* entity added by an earlier step is gone when it overlaps a later step's *)
(* source entities.                                                        *)
C18_PipelineOrderPrecedence ==
    pc = "replaced" =>
        \A pmid \in Docs :
            /\ \A i \in 1..labels_done :
                WithLabel(EntitiesOf(base_dict, pmid), replace_labels[i])
                    = Unchallenged(pmid, i, labels_done)
            /\ WithLabel(EntitiesOf(base_dict, pmid), replace_labels[labels_done])
                    = WithLabel(EntitiesOf(class_dict, pmid), replace_labels[labels_done])

\* Both labels were processed, and a source entity of the first label that the first
\* step added was removed by the second step, next to one that survived.
C18_Witness ==
    /\ pc = "replaced"
    /\ labels_done = 2
    /\ \E pmid \in DOMAIN base_dict :
        /\ \E e \in Range(WithLabel(EntitiesOf(class_dict, pmid), replace_labels[1])) :
            /\ e \in Range(base_before[pmid].entities)
            /\ e \notin Range(base_dict[pmid].entities)
        /\ \E e \in Range(WithLabel(EntitiesOf(class_dict, pmid), replace_labels[1])) :
            e \in Range(base_dict[pmid].entities)

\* no two entities of a document overlap
OverlapFree(d) ==
    \A pmid \in DOMAIN d :
        \A i, j \in 1..Len(d[pmid].entities) :
            i # j => ~spans_overlap(d[pmid].entities[i], d[pmid].entities[j])

(* C19: if no two entities of a document of the loaded base overlap and no *)
(* two entities of a document of source overlap, then after every          *)
(* overlap-removing replace step of the loop no two entities of a result   *)
(* document overlap.                                                       *)
C19_OverlapFreedomPreserved ==
    (pc = "replaced" /\ OverlapFree(base_loaded) /\ OverlapFree(class_dict))
        => OverlapFree(base_dict)

\* From an overlap-free base and source, a step removed a base entity that overlapped
\* the source and left a document with two entities.
C19_Witness ==
    /\ pc = "replaced"
    /\ OverlapFree(base_loaded) /\ OverlapFree(class_dict)
    /\ \E pmid \in DOMAIN base_before :
        /\ \E e \in Range(base_before[pmid].entities) :
            /\ e.label # class_label
            /\ OverlapsAny(e, ClassEntities(pmid))
            /\ e \notin Range(base_dict[pmid].entities)
        /\ Len(base_dict[pmid].entities) >= 2

----------------------------------------------------------------------------
(* Threshold Filter: threshold_class.py, filter_entities_by_threshold.     *)
(* An entity is [entity_label, score]; a sample is [title, pred_entities]. *)

MaxPreds == 2

PredLabels == {"food", "Food", "ddf", "DDF", "gene"}

\* str.lower() on the labels of the model
Lower(lb) ==
    CASE lb = "Food" -> "food"
      [] lb = "DDF"  -> "ddf"
      [] OTHER       -> lb

\* Keys a threshold dict may hold: lower-case class names and the canonical "DDF".
ThresholdKeys == {"food", "ddf", "DDF"}

ThresholdValues == {30, 50}

Scores == {49, 50}

ThresholdDicts == UNION { [K -> ThresholdValues] : K \in SUBSET ThresholdKeys }

PredEntities == { [entity_label |-> lb, score |-> sc] : lb \in PredLabels, sc \in Scores }

\* The raw predictions: every article is a key; n1 and n2 entities.
RawPredictions(n1, n2) ==
    { [pmid \in Docs |->
         [title |-> pmid, pred_entities |-> IF pmid = "d1" THEN e1 ELSE e2]] :
        e1 \in [1..n1 -> PredEntities], e2 \in [1..n2 -> PredEntities] }

KeyError == "KeyError"

\* Lines 17-27: what the lookup of an entity's threshold ends in: "threshold" with
\* its value, "continue" for an unknown label, "KeyError" when label_thresholds['DDF']
\* is read and the dict has no such key.
ThresholdOf(entity, label_thresholds) ==
    LET entity_label == Lower(entity.entity_label)
    IN  IF entity_label \in DOMAIN label_thresholds
        THEN [kind |-> "threshold", value |-> label_thresholds[entity_label]]
        ELSE IF entity_label = "ddf"
             THEN IF "DDF" \in DOMAIN label_thresholds
                  THEN [kind |-> "threshold", value |-> label_thresholds["DDF"]]
                  ELSE [kind |-> KeyError, value |-> 0]
             ELSE [kind |-> "continue", value |-> 0]

Raises(preds, label_thresholds) ==
    \E pmid \in DOMAIN preds :
        \E e \in Range(preds[pmid].pred_entities) :
            ThresholdOf(e, label_thresholds).kind = KeyError

\* The value returned, for a call that does not raise.
filter_entities_by_threshold(preds, label_thresholds) ==
    [sample_id \in DOMAIN preds |->
        [preds[sample_id] EXCEPT !.pred_entities =
            SelectSeq(@, LAMBDA entity :
                LET threshold == ThresholdOf(entity, label_thresholds)
                IN  threshold.kind = "threshold" /\ entity.score >= threshold.value)]]

InitThreshold ==
    /\ pc = "start"
    /\ \E n1 \in 0..MaxPreds, n2 \in 0..MaxPreds :
        /\ n1 + n2 <= MaxPreds
        /\ ner_predictions \in RawPredictions(n1, n2)
    /\ thresholds \in ThresholdDicts
    /\ ner_before = None
    /\ raised = None
    /\ IdleOverlap /\ IdleRecon /\ IdleRules

\* ner_predictions = filter_entities_by_threshold(ner_predictions, thresholds): an
\* exception leaves the variable unassigned and ends the program.
FilterCall ==
    /\ pc = "start"
    /\ ner_before' = ner_predictions
    /\ IF Raises(ner_predictions, thresholds)
       THEN /\ raised' = KeyError
            /\ pc' = "raised"
            /\ UNCHANGED ner_predictions
       ELSE /\ raised' = None
            /\ pc' = "filtered"
            /\ ner_predictions' = filter_entities_by_threshold(ner_predictions, thresholds)
    /\ UNCHANGED <<thresholds, OverlapVars, ReconVars, RuleVars>>

NextThreshold == FilterCall

SpecThreshold == InitThreshold /\ [][NextThreshold]_vars

\* The claims' reading of the configuration: the threshold configured for a label,
\* looked up by the lower-cased label, 'ddf' standing for 'DDF'.
Configured(lb) ==
    \/ Lower(lb) \in DOMAIN thresholds
    \/ (Lower(lb) = "ddf" /\ "DDF" \in DOMAIN thresholds)

ConfiguredThreshold(lb) ==
    IF Lower(lb) \in DOMAIN thresholds THEN thresholds[Lower(lb)] ELSE thresholds["DDF"]

CalledFilter == pc \in {"filtered", "raised"}

(* C4: for every document and mapping, filter_entities_by_threshold keeps  *)
(* a span iff a threshold is configured for its label (case-insensitive,   *)
(* 'ddf' as 'DDF') and score >= that threshold, in input order with        *)
(* unchanged fields.                                                       *)
C4_FilterKeepsIffAtLeast ==
    CalledFilter =>
        /\ raised = None
        /\ DOMAIN ner_predictions = DOMAIN ner_before
        /\ \A pmid \in DOMAIN ner_before :
            ner_predictions[pmid].pred_entities =
                SelectSeq(ner_before[pmid].pred_entities,
                          LAMBDA e : Configured(e.entity_label)
                                     /\ e.score >= ConfiguredThreshold(e.entity_label))

(* C5: a span whose label has no configured threshold (a 'ddf' span with   *)
(* neither a 'ddf' nor a 'DDF' key included) is dropped silently: no error *)
(* is raised, no such span is in the result, and the spans of the batch    *)
(* that have a threshold and reach it are still returned.                  *)
C5_UnknownLabelDropped ==
    CalledFilter =>
        /\ raised = None
        /\ \A pmid \in DOMAIN ner_before :
            /\ \A e \in Range(ner_predictions[pmid].pred_entities) :
                  Configured(e.entity_label)
            /\ \A e \in Range(ner_before[pmid].pred_entities) :
                  (Configured(e.entity_label)
                     /\ e.score >= ConfiguredThreshold(e.entity_label))
                  => e \in Range(ner_predictions[pmid].pred_entities)

\* the input that holds document pmid alone
OnlyDocument(preds, pmid) == [k \in {pmid} |-> preds[k]]

\* What a run of filter_entities_by_threshold yields for document pmid: the exception
\* that ended the call, or the document's filtered entities.
FilterOutcome(preds, label_thresholds, pmid) ==
    IF Raises(preds, label_thresholds)
    THEN [raised |-> KeyError, pred_entities |-> <<>>]
    ELSE [raised |-> None,
          pred_entities |->
              filter_entities_by_threshold(preds, label_thresholds)[pmid].pred_entities]

(* C15: what an operation yields for document d depends only on the        *)
(* inputs' document d: the threshold filter run on the whole batch yields  *)
(* for every document what it yields when run on that document alone, so   *)
(* two runs that agree on d and differ on other documents agree on d.      *)
C15_DocumentIndependence ==
    CalledFilter =>
        \A pmid \in DOMAIN ner_before :
            [raised |-> raised,
             pred_entities |-> IF raised = None
                               THEN ner_predictions[pmid].pred_entities
                               ELSE <<>>]
                = FilterOutcome(OnlyDocument(ner_before, pmid), thresholds, pmid)


----------------------------------------------------------------------------
(* Consecutive-Span Merger: threshold_class.py,                            *)
(* merge_consecutive_predictions.  An article is [title, abstract,         *)
(* pred_entities]; an entity is [start_idx, end_idx, tag, text_span,       *)
(* entity_label, score], as gliner_interface.py writes it: offsets into    *)
(* title + " " + abstract, end exclusive, text_span the text of the span.  *)

MaxSpans == 3

\* text[a:b] for 0 <= a and 0 <= b: Python clamps b to the length.
Slice(text, a, b) == SubSeq(text, a + 1, Min(b, Len(text)))

MergeTitle    == <<"a">>
MergeAbstract == <<"b", "-", "c">>

MergeLabels == {"chemical", "drug"}

MergeScores == {40, 70}

FullText(doc) == doc.title \o <<" ">> \o doc.abstract

\* gliner_interface.py lines 81-121: the spans of the title, tagged 't', and the
\* spans of the abstract shifted by len(title) + 1, tagged 'a'.
RawEntities(title, abstract) ==
    { [start_idx |-> s, end_idx |-> e, tag |-> "t", text_span |-> Slice(title, s, e),
       entity_label |-> lb, score |-> sc] :
        s \in 0..(Len(title) - 1), e \in 1..Len(title), lb \in MergeLabels,
        sc \in MergeScores }
    \cup
    { [start_idx |-> s + Len(title) + 1, end_idx |-> e + Len(title) + 1, tag |-> "a",
       text_span |-> Slice(abstract, s, e), entity_label |-> lb, score |-> sc] :
        s \in 0..(Len(abstract) - 1), e \in 1..Len(abstract), lb \in MergeLabels,
        sc \in MergeScores }

\* gliner_interface.py lines 89-121: a span equal to an earlier one in start, end,
\* text, label and score is not written a second time.
NoDuplicates(es) == \A i, j \in 1..Len(es) : i # j => es[i] # es[j]

MergeInputs ==
    { [d1 |-> [title |-> MergeTitle, abstract |-> MergeAbstract, pred_entities |-> es]] :
        es \in { l \in SeqsUpTo({ e \in RawEntities(MergeTitle, MergeAbstract) :
                                    e.start_idx < e.end_idx }, MaxSpans) :
                    NoDuplicates(l) } }

\* Scenario D: two 'chemical' spans [5,10) and [10,14) of the abstract "alphabeta"
\* under the title "Guts".
ScenarioD ==
    [d1 |-> [title |-> <<"G", "u", "t", "s">>,
             abstract |-> <<"a", "l", "p", "h", "a", "b", "e", "t", "a">>,
             pred_entities |->
                << [start_idx |-> 5, end_idx |-> 10, tag |-> "a",
                    text_span |-> <<"a", "l", "p", "h", "a">>,
                    entity_label |-> "chemical", score |-> 70],
                   [start_idx |-> 10, end_idx |-> 14, tag |-> "a",
                    text_span |-> <<"b", "e", "t", "a">>,
                    entity_label |-> "chemical", score |-> 40] >>]]

\* Bug variant: only end_idx == start_idx counts as adjacent.
adjacent_abutting_only(current_entity, entity) ==
    current_entity.end_idx = entity.start_idx

\* lines 55-58
adjacent(current_entity, entity) ==
    \/ current_entity.end_idx + 1 = entity.start_idx
    \/ current_entity.end_idx = entity.start_idx

\* Bug variant: the join is a hard-coded space and the score the larger one.
extend_current_space_max(current_entity, entity, full_text) ==
    [current_entity EXCEPT
        !.end_idx = entity.end_idx,
        !.text_span = @ \o <<" ">> \o entity.text_span,
        !.score = IF @ >= entity.score THEN @ ELSE entity.score]

\* Bug variant: the fused span takes the tag of the span that extends it.
extend_current_next_tag(current_entity, entity, full_text) ==
    LET join_text == Slice(full_text, current_entity.end_idx, entity.start_idx)
    IN  [current_entity EXCEPT
            !.end_idx = entity.end_idx,
            !.tag = entity.tag,
            !.text_span = @ \o join_text \o entity.text_span,
            !.score = Min(@, entity.score)]

\* lines 62-65
extend_current(current_entity, entity, full_text) ==
    LET join_text == Slice(full_text, current_entity.end_idx, entity.start_idx)
    IN  [current_entity EXCEPT
            !.end_idx = entity.end_idx,
            !.text_span = @ \o join_text \o entity.text_span,
            !.score = Min(@, entity.score)]

\* lines 49-72: current is << >> for None and <<current_entity>> otherwise.
RECURSIVE MergeLoop(_, _, _, _, _)
MergeLoop(ents, i, current, merged_entities, full_text) ==
    IF i > Len(ents)
    THEN merged_entities \o current
    ELSE LET entity == ents[i]
         IN  IF current = <<>>
             THEN MergeLoop(ents, i + 1, <<entity>>, merged_entities, full_text)
             ELSE IF /\ current[1].entity_label = entity.entity_label
                     /\ adjacent(current[1], entity)
                  THEN MergeLoop(ents, i + 1,
                                 <<extend_current(current[1], entity, full_text)>>,
                                 merged_entities, full_text)
                  ELSE MergeLoop(ents, i + 1, <<entity>>,
                                 Append(merged_entities, current[1]), full_text)

\* The dict after the call: every doc["pred_entities"] is replaced in place.
merge_consecutive_predictions(d) ==
    [pmid \in DOMAIN d |->
        [d[pmid] EXCEPT !.pred_entities =
            MergeLoop(@, 1, <<>>, <<>>, FullText(d[pmid]))]]

InitMerge ==
    /\ pc = "start"
    /\ ner_predictions \in MergeInputs \cup {ScenarioD}
    /\ thresholds = None
    /\ ner_before = None
    /\ raised = None
    /\ IdleOverlap /\ IdleRecon /\ IdleRules

MergeCall ==
    /\ pc = "start"
    /\ ner_before' = ner_predictions
    /\ ner_predictions' = merge_consecutive_predictions(ner_predictions)
    /\ pc' = "merged"
    /\ UNCHANGED <<thresholds, raised, OverlapVars, ReconVars, RuleVars>>

NextMerge == MergeCall

SpecMerge == InitMerge /\ [][NextMerge]_vars

\* The claim's own account of the merger: the output after the first n input spans,
\* its last span being the accumulator.
RECURSIVE AccumulatorFold(_, _, _)
AccumulatorFold(ents, n, text) ==
    IF n = 0 THEN <<>>
    ELSE LET out  == AccumulatorFold(ents, n - 1, text)
             next == ents[n]
         IN  IF out = <<>> THEN <<next>>
             ELSE LET acc == out[Len(out)]
                  IN  IF /\ next.entity_label = acc.entity_label
                         /\ next.start_idx \in {acc.end_idx, acc.end_idx + 1}
                      THEN SubSeq(out, 1, Len(out) - 1) \o
                           << [start_idx |-> acc.start_idx,
                               end_idx |-> next.end_idx,
                               tag |-> acc.tag,
                               text_span |-> acc.text_span
                                             \o Slice(text, acc.end_idx, next.start_idx)
                                             \o next.text_span,
                               entity_label |-> acc.entity_label,
                               score |-> IF acc.score <= next.score
                                         THEN acc.score ELSE next.score] >>
                      ELSE Append(out, next)

TextConsistent(e, text) == e.text_span = Slice(text, e.start_idx, e.end_idx)

(* C6: merge_consecutive_predictions processes the spans in order with one *)
(* accumulator; a next span of the accumulator's label starting at its     *)
(* end_idx or end_idx + 1 extends it (start kept, end of the next span,    *)
(* minimum score, text = accumulator text + full_text[acc.end:next.start]  *)
(* + next text), any other span flushes it unchanged; two abutting spans   *)
(* of one label give exactly one span with the minimum score, and text     *)
(* spans equal to full_text[start:end] stay so.                            *)
C6_MergeAccumulator ==
    pc = "merged" =>
        \A pmid \in DOMAIN ner_before :
            LET in   == ner_before[pmid].pred_entities
                out  == ner_predictions[pmid].pred_entities
                text == FullText(ner_before[pmid])
            IN  /\ out = AccumulatorFold(in, Len(in), text)
                /\ (\A i \in 1..Len(in) : TextConsistent(in[i], text))
                      => \A j \in 1..Len(out) : TextConsistent(out[j], text)
                /\ (/\ Len(in) = 2
                    /\ in[1].entity_label = in[2].entity_label
                    /\ in[1].end_idx = in[2].start_idx)
                      => /\ Len(out) = 1
                         /\ out[1].start_idx = in[1].start_idx
                         /\ out[1].end_idx = in[2].end_idx
                         /\ out[1].score = Min(in[1].score, in[2].score)

\* Scenario D happened: [5,10) and [10,14), 'chemical', became the one span [5,14)
\* with the smaller score and the text of the source.
C6_Witness ==
    /\ pc = "merged"
    /\ ner_before = ScenarioD
    /\ ner_predictions["d1"].pred_entities =
          << [start_idx |-> 5, end_idx |-> 14, tag |-> "a",
              text_span |-> <<"a", "l", "p", "h", "a", "b", "e", "t", "a">>,
              entity_label |-> "chemical", score |-> 40] >>

(* C7: in the output of merge_consecutive_predictions no two spans at      *)
(* consecutive positions have the same label while the later one starts at *)
(* the earlier one's end_idx or end_idx + 1.                               *)
C7_MergeMaximal ==
    pc = "merged" =>
        \A pmid \in DOMAIN ner_predictions :
            LET out == ner_predictions[pmid].pred_entities
            IN  \A j \in 1..(Len(out) - 1) :
                    ~(/\ out[j].entity_label = out[j + 1].entity_label
                      /\ out[j + 1].start_idx \in {out[j].end_idx, out[j].end_idx + 1})

\* A run of three abutting spans of one label was fused into a single span.
C7_Witness ==
    /\ pc = "merged"
    /\ \E pmid \in DOMAIN ner_before :
        LET in  == ner_before[pmid].pred_entities
            out == ner_predictions[pmid].pred_entities
        IN  /\ Len(in) = 3
            /\ Len(out) = 1
            /\ in[2].start_idx = in[1].end_idx + 1
            /\ in[3].start_idx = in[2].end_idx


\* what identifies the place of a span of a label: label, title/abstract tag, start
StartKey(e) == <<e.entity_label, e.tag, e.start_idx>>

StartKeys(ents) == [i \in 1..Len(ents) |-> StartKey(ents[i])]

StartsUnique(ents) ==
    \A i, j \in 1..Len(ents) : i # j => StartKey(ents[i]) # StartKey(ents[j])

\* a can be obtained from b by deleting elements
RECURSIVE IsSubsequence(_, _)
IsSubsequence(a, b) ==
    IF a = <<>> THEN TRUE
    ELSE IF b = <<>> THEN FALSE
    ELSE IF Head(a) = Head(b)
         THEN IsSubsequence(Tail(a), Tail(b))
         ELSE IsSubsequence(a, Tail(b))

(* C16 as stated: for every input span list, after                         *)
(* merge_consecutive_predictions no two output spans of the same label     *)
(* share the same (tag, start_idx).                                        *)
C16_Original ==
    pc = "merged" =>
        \A pmid \in DOMAIN ner_predictions :
            StartsUnique(ner_predictions[pmid].pred_entities)

(* C16 amended: merge_consecutive_predictions gives every output span the  *)
(* label, tag and start_idx of the first input span of its run, so the     *)
(* (label, tag, start_idx) of the output spans are a subsequence of those  *)
(* of the input spans; when no two input spans of the same label share     *)
(* (tag, start_idx), no two output spans do.                               *)
C16_StartsFromInput ==
    pc = "merged" =>
        \A pmid \in DOMAIN ner_before :
            LET in  == ner_before[pmid].pred_entities
                out == ner_predictions[pmid].pred_entities
            IN  /\ IsSubsequence(StartKeys(out), StartKeys(in))
                /\ StartsUnique(in) => StartsUnique(out)

\* Three spans of one label with distinct starts, the first two fused across the
\* title/abstract boundary or inside the abstract, left two spans with distinct starts.
C16_Witness ==
    /\ pc = "merged"
    /\ \E pmid \in DOMAIN ner_before :
        LET in  == ner_before[pmid].pred_entities
            out == ner_predictions[pmid].pred_entities
        IN  /\ Len(in) = 3 /\ Len(out) = 2
            /\ StartsUnique(in)
            /\ in[1].entity_label = in[3].entity_label
            /\ out[1].start_idx = in[1].start_idx
            /\ out[1].end_idx = in[2].end_idx
            /\ out[2] = in[3]


----------------------------------------------------------------------------
(* Index Normalizer: threshold_class.py, adjust_predicted_indices, run by  *)
(* __main__ on what merge_consecutive_predictions left in ner_predictions. *)

MaxNormSpans == 3

NormLabels == {"ddf", "DDF", "drug"}

NormScore == 70

\* gliner_interface.py lines 81-121, as RawEntities, with the labels of NormLabels.
NormEntities(title, abstract) ==
    { [start_idx |-> s, end_idx |-> e, tag |-> "t", text_span |-> Slice(title, s, e),
       entity_label |-> lb, score |-> NormScore] :
        s \in 0..(Len(title) - 1), e \in 1..Len(title), lb \in NormLabels }
    \cup
    { [start_idx |-> s + Len(title) + 1, end_idx |-> e + Len(title) + 1, tag |-> "a",
       text_span |-> Slice(abstract, s, e), entity_label |-> lb, score |-> NormScore] :
        s \in 0..(Len(abstract) - 1), e \in 1..Len(abstract), lb \in NormLabels }

\* The second article has an empty title and a one-character abstract.
NormTitle(pmid)    == IF pmid = "d1" THEN MergeTitle ELSE <<>>
NormAbstract(pmid) == IF pmid = "d1" THEN MergeAbstract ELSE <<"b">>

NormSpans(pmid) ==
    { e \in NormEntities(NormTitle(pmid), NormAbstract(pmid)) : e.start_idx < e.end_idx }

\* The predictions of the two articles: n1 and n2 spans.
NormInputs(n1, n2) ==
    { [pmid \in Docs |->
         [title |-> NormTitle(pmid), abstract |-> NormAbstract(pmid),
          pred_entities |-> IF pmid = "d1" THEN e1 ELSE e2]] :
        e1 \in { l \in [1..n1 -> NormSpans("d1")] : NoDuplicates(l) },
        e2 \in { l \in [1..n2 -> NormSpans("d2")] : NoDuplicates(l) } }

\* Bug variant: every span is shifted by the title, whatever its tag.
adjusted_entity_shift_all(entity, title_length) ==
    [entity EXCEPT
        !.end_idx = (@ - 1) - (title_length + 1),
        !.entity_label = IF @ = "ddf" THEN "DDF" ELSE @,
        !.start_idx = @ - (title_length + 1)]

\* lines 99-109
adjusted_entity(entity, title_length) ==
    LET shift == IF entity.tag = "a" THEN title_length + 1 ELSE 0
    IN  [entity EXCEPT
            !.end_idx = (@ - 1) - shift,
            !.entity_label = IF @ = "ddf" THEN "DDF" ELSE @,
            !.start_idx = @ - shift]

adjust_predicted_indices(d) ==
    [pmid \in DOMAIN d |->
        LET doc == d[pmid]
            title_length == Len(doc.title)
        IN  [doc EXCEPT !.pred_entities =
                [i \in 1..Len(doc.pred_entities) |->
                    adjusted_entity(doc.pred_entities[i], title_length)]]]

InitNormalize ==
    /\ pc = "start"
    /\ \E n1 \in 0..MaxNormSpans, n2 \in 0..MaxNormSpans :
        /\ n1 + n2 <= MaxNormSpans
        /\ ner_predictions \in NormInputs(n1, n2)
    /\ thresholds = None
    /\ ner_before = None
    /\ raised = None
    /\ IdleOverlap /\ IdleRecon /\ IdleRules

\* ner_predictions = adjust_predicted_indices(ner_predictions)
AdjustCall ==
    /\ pc = "merged"
    /\ ner_before' = ner_predictions
    /\ ner_predictions' = adjust_predicted_indices(ner_predictions)
    /\ pc' = "adjusted"
    /\ UNCHANGED <<thresholds, raised, OverlapVars, ReconVars, RuleVars>>

NextNormalize == MergeCall \/ AdjustCall

SpecNormalize == InitNormalize /\ [][NextNormalize]_vars

C20_SpansStayInField ==
    /\ pc = "merged" =>
          \A pmid \in DOMAIN ner_predictions :
              \A e \in Range(ner_predictions[pmid].pred_entities) :
                  /\ e.tag = "t" => e.end_idx <= Len(ner_predictions[pmid].title)
                  /\ e.tag = "a" => e.start_idx >= Len(ner_predictions[pmid].title) + 1
    /\ pc = "adjusted" =>
          \A pmid \in DOMAIN ner_predictions :
              \A e \in Range(ner_predictions[pmid].pred_entities) :
                  /\ e.start_idx >= 0
                  /\ e.start_idx <= e.end_idx
                  /\ e.tag = "t" => e.end_idx <= Len(ner_predictions[pmid].title)
                  /\ e.tag = "a" => e.end_idx <= Len(ner_predictions[pmid].abstract)


----------------------------------------------------------------------------
(* Span Extension Rule Engine: postprocessing_rules.py.  A record is       *)
(* [metadata |-> [title, abstract], entities]; an entity is [start_idx,    *)
(* end_idx, location, text_span, label].                                   *)

Window == 20

MaxGap == 12

MaxRuleEnts == 1

Whitespace == {" ", "\t", "\n"}

Punctuation == {".", ",", ";", ":", "!", "?"}

Drug == <<"D", "r", "u", "g">>

treatment     == <<"t", "r", "e", "a", "t", "m", "e", "n", "t">>
treatments    == treatment \o <<"s">>
intervention  == <<"i", "n", "t", "e", "r", "v", "e", "n", "t", "i", "o", "n">>
interventions == intervention \o <<"s">>

\* The alternatives of each rule's pattern, in the order the regex tries them.
TreatmentWords    == <<treatment, treatments>>
InterventionWords == <<intervention, interventions>>

\* str.lstrip()
RECURSIVE LStrip(_)
LStrip(t) == IF t # <<>> /\ t[1] \in Whitespace THEN LStrip(Tail(t)) ELSE t

StartsWith(t, w) == Len(t) >= Len(w) /\ SubSeq(t, 1, Len(w)) = w

\* str.find(w): the first index of w in t, -1 when there is none
Find(t, w) ==
    LET hits == { i \in 0..(Len(t) - Len(w)) : SubSeq(t, i + 1, i + Len(w)) = w }
    IN  IF hits = {} THEN -1 ELSE CHOOSE i \in hits : \A j \in hits : i <= j

\* re.match(r'(w1|w2)([.,;:!?\s]|$)', rest_text): group(1), or << >> for no match.
\* The alternatives are tried in order, each with its own look at what follows; $
\* matches at the end of rest_text.
ReMatch(words, rest_text) ==
    LET ok(w) == /\ StartsWith(rest_text, w)
                 /\ \/ Len(rest_text) = Len(w)
                    \/ rest_text[Len(w) + 1] \in Punctuation \cup Whitespace
    IN  IF ok(words[1]) THEN words[1]
        ELSE IF ok(words[2]) THEN words[2]
        ELSE <<>>

\* Bug variant: the offset of the word is not corrected for the leading space.
new_end_idx_no_correction(end_pos, following_text, word) ==
    end_pos + Find(following_text, word) + Len(word) + 1

\* lines 68-69 and 252-253
new_end_idx(end_pos, following_text, word) ==
    LET space_offset == Find(following_text, word) - 1
    IN  end_pos + space_offset + Len(word) + 1

\* Bug variant: end_idx is stored exclusive.
updated_entity_exclusive(text, entity, new_end) ==
    [entity EXCEPT !.end_idx = new_end,
                   !.text_span = Slice(text, entity.start_idx, new_end)]

\* lines 72, 87-88 and 256, 271-272
updated_entity(text, entity, new_end) ==
    [entity EXCEPT !.end_idx = new_end - 1,
                   !.text_span = Slice(text, entity.start_idx, new_end)]

\* The body of the loop over the candidate entities (lines 36-90 and 220-274):
\* the entity after it, and whether it was extended.
ExtendEntity(text, entity, words) ==
    LET end_pos        == entity.end_idx + 1
        following_text == Slice(text, end_pos, Min(end_pos + Window, Len(text)))
        rest_text      == LStrip(Tail(following_text))
        word           == ReMatch(words, rest_text)
    IN  IF /\ end_pos < Len(text)
           /\ StartsWith(following_text, <<" ">>)
           /\ word # <<>>
        THEN [entity |-> updated_entity(text, entity,
                                        new_end_idx(end_pos, following_text, word)),
              extended |-> 1]
        ELSE [entity |-> entity, extended |-> 0]

\* One pass over the entities of location_flag (of the labels in label_filter, of any
\* label when it is empty), each extended in place: the entity list after it and
\* the Counter returned.
RulePass(text, entities, location_flag, words, label_filter) ==
    LET candidate(e) == /\ e.location = location_flag
                        /\ (label_filter = {} \/ e.label \in label_filter)
        step(i) == IF candidate(entities[i])
                   THEN ExtendEntity(text, entities[i], words)
                   ELSE [entity |-> entities[i], extended |-> 0]
        RECURSIVE Sum(_)
        Sum(i) == IF i = 0 THEN 0 ELSE step(i).extended + Sum(i - 1)
    IN  [entities |-> [i \in 1..Len(entities) |-> step(i).entity],
         total    |-> Len(SelectSeq(entities, candidate)),
         extended |-> Sum(Len(entities))]

adjust_entities_treatment_rule(text, entities, location_flag) ==
    RulePass(text, entities, location_flag, TreatmentWords, {"drug"})

adjust_entities_intervention_rule(text, entities, location_flag) ==
    RulePass(text, entities, location_flag, InterventionWords, {})

ApplyRule(rule, text, entities, location_flag) ==
    IF rule = "treatment"
    THEN adjust_entities_treatment_rule(text, entities, location_flag)
    ELSE adjust_entities_intervention_rule(text, entities, location_flag)

\* process_pmid_with_*_rule: the title pass, then the abstract pass on its result;
\* a record without entities returns an empty Counter.
ProcessPmid(record, rule) ==
    IF record.entities = <<>>
    THEN [record |-> record, total |-> 0, extended |-> 0]
    ELSE LET title_pass    == ApplyRule(rule, record.metadata.title, record.entities,
                                        "title")
             abstract_pass == ApplyRule(rule, record.metadata.abstract,
                                        title_pass.entities, "abstract")
         IN  [record   |-> [record EXCEPT !.entities = abstract_pass.entities],
              total    |-> title_pass.total + abstract_pass.total,
              extended |-> title_pass.extended + abstract_pass.extended]

process_pmid_with_treatment_rule(record) == ProcessPmid(record, "treatment")

process_pmid_with_intervention_rule(record) == ProcessPmid(record, "intervention")

RECURSIVE SumOver(_, _)
SumOver(f, keys) ==
    IF keys = {} THEN 0
    ELSE LET k == CHOOSE x \in keys : TRUE IN f[k] + SumOver(f, keys \ {k})

\* process_json_*_rule: every record processed in place, the Counters summed.
ProcessJson(d, rule) ==
    LET processed == [pmid \in DOMAIN d |-> ProcessPmid(d[pmid], rule)]
    IN  [data  |-> [pmid \in DOMAIN d |-> processed[pmid].record],
         stats |-> [total    |-> SumOver([pmid \in DOMAIN d |-> processed[pmid].total],
                                         DOMAIN d),
                    extended |-> SumOver([pmid \in DOMAIN d |-> processed[pmid].extended],
                                         DOMAIN d)]]

process_json_treatment_rule(d) == ProcessJson(d, "treatment")

process_json_intervention_rule(d) == ProcessJson(d, "intervention")

\* The texts: "Drug", a gap, a token and what follows it.
Spaces(n) == [i \in 1..n |-> " "]

Gaps ==
    { Spaces(n) : n \in 0..MaxGap }
    \cup { <<"\t">> }
    \cup { <<" ", "\t">> \o Spaces(n) : n \in 0..(MaxGap - 2) }

Tokens == { treatment, treatments, intervention, interventions, <<"t", "r", "i", "a", "l">> }

Tails == { <<>>, <<".">>, <<" ", "e">>, <<"x">> }

RuleTexts == { Drug \o g \o tk \o tl : g \in Gaps, tk \in Tokens, tl \in Tails }

OtherText == Drug \o <<" ", "t", "r", "i", "a", "l", ".">>

\* The candidate entity: "Drug" at the start of its field, with its end_idx
\* inclusive (3) or exclusive (4).
RuleEntities ==
    { [start_idx |-> 0, end_idx |-> e, location |-> l, text_span |-> Drug, label |-> lb] :
        e \in {3, 4}, l \in Locations, lb \in {"drug", "gene"} }

RuleRecords ==
    { [metadata |-> md, entities |-> es] :
        md \in { [title |-> t, abstract |-> OtherText] : t \in RuleTexts }
               \cup { [title |-> OtherText, abstract |-> t] : t \in RuleTexts },
        es \in SeqsUpTo(RuleEntities, MaxRuleEnts) }

InitRules ==
    /\ pc = "start"
    /\ data \in { [d1 |-> r] : r \in RuleRecords }
    /\ data_before = None
    /\ stats = None
    /\ IdleOverlap /\ IdleRecon /\ IdleThresh

\* data = process_json_treatment_rule(data)
TreatmentRuleCall ==
    /\ pc = "start"
    /\ data_before' = data
    /\ data' = process_json_treatment_rule(data).data
    /\ stats' = process_json_treatment_rule(data).stats
    /\ pc' = "treatment"
    /\ UNCHANGED <<OverlapVars, ReconVars, ThreshVars>>

\* data = process_json_intervention_rule(data)
InterventionRuleCall ==
    /\ pc = "treatment"
    /\ data_before' = data
    /\ data' = process_json_intervention_rule(data).data
    /\ stats' = process_json_intervention_rule(data).stats
    /\ pc' = "intervention"
    /\ UNCHANGED <<OverlapVars, ReconVars, ThreshVars>>

NextRules == TreatmentRuleCall \/ InterventionRuleCall

SpecRules == InitRules /\ [][NextRules]_vars


\* What the claims speak of, for the call that led to the current state.
CalledRule == pc \in {"treatment", "intervention"}

RuleWords == IF pc = "treatment" THEN TreatmentWords ELSE InterventionWords

TextOf(record, e) ==
    IF e.location = "title" THEN record.metadata.title ELSE record.metadata.abstract

\* entity i of record pmid was extended by the call
WasExtended(pmid, i) ==
    data[pmid].entities[i] # data_before[pmid].entities[i]

\* The word-boundary condition on the source text: the character after the span (at
\* end_idx + 1, end_idx being the last character of the span) is whitespace, and the
\* first non-whitespace character after it starts a target word that is followed in
\* the text by punctuation, whitespace or the end of the text.
WordBoundaryMatch(text, e, words) ==
    LET p == e.end_idx + 1
        nonws == { q \in p..(Len(text) - 1) : text[q + 1] \notin Whitespace }
    IN  /\ p < Len(text)
        /\ text[p + 1] \in Whitespace
        /\ nonws # {}
        /\ LET q == CHOOSE x \in nonws : \A y \in nonws : x <= y
           IN  \E k \in 1..Len(words) :
                  LET w == words[k]
                  IN  /\ q + Len(w) <= Len(text)
                      /\ SubSeq(text, q + 1, q + Len(w)) = w
                      /\ \/ q + Len(w) = Len(text)
                         \/ text[q + Len(w) + 1] \in Punctuation \cup Whitespace

(* C8: a rule extends a span (any label for the intervention rule, 'drug'  *)
(* only for the treatment rule) only if the character right after the span *)
(* is whitespace and the next whitespace-delimited token of the source     *)
(* text is a target word followed in the source text by punctuation,       *)
(* whitespace or end-of-text; a longer token that starts with a target     *)
(* word never triggers an extension, also at the end of the 20-character   *)
(* window.                                                                 *)
C8_WordBoundaryOnly ==
    CalledRule =>
        \A pmid \in DOMAIN data :
            \A i \in 1..Len(data[pmid].entities) :
                WasExtended(pmid, i) =>
                    LET e == data_before[pmid].entities[i]
                    IN  /\ pc = "treatment" => e.label = "drug"
                        /\ WordBoundaryMatch(TextOf(data_before[pmid], e), e, RuleWords)

\* Scenario A: the text 'Drug treatment.' and one 'drug' entity "Drug" at 0 with the
\* given end_idx, in the title.
ScenarioA(end_idx) ==
    [d1 |-> [metadata |-> [title |-> Drug \o <<" ">> \o treatment \o <<".">>,
                           abstract |-> OtherText],
             entities |-> << [start_idx |-> 0, end_idx |-> end_idx, location |-> "title",
                              text_span |-> Drug, label |-> "drug"] >>]]

(* C9 as stated: for the text 'Drug treatment.' and the 'drug' entity with *)
(* start_idx 0, end_idx 4, text_span 'Drug', after the treatment rule the  *)
(* entity has start_idx 0, end_idx 14, text_span 'Drug treatment' and the  *)
(* extended count is 1.                                                    *)
C9_Original ==
    (pc = "treatment" /\ data_before = ScenarioA(4)) =>
        /\ data["d1"].entities[1].start_idx = 0
        /\ data["d1"].entities[1].end_idx = 14
        /\ data["d1"].entities[1].text_span = Drug \o <<" ">> \o treatment
        /\ stats.extended = 1

(* C9 amended: the rule reads end_idx as the index of the span's last      *)
(* character.  For 'Drug treatment.' and the 'drug' entity with start_idx  *)
(* 0, end_idx 3, text_span 'Drug', after the treatment rule the entity has *)
(* start_idx 0, end_idx 13, text_span 'Drug treatment' (the period is      *)
(* excluded) and the extended count is 1; with end_idx 4 the entity is     *)
(* left unchanged and the extended count is 0.                             *)
C9_ScenarioA ==
    /\ (pc = "treatment" /\ data_before = ScenarioA(3)) =>
          /\ data["d1"].entities =
                << [start_idx |-> 0, end_idx |-> 13, location |-> "title",
                    text_span |-> Drug \o <<" ">> \o treatment, label |-> "drug"] >>
          /\ stats.extended = 1
    /\ (pc = "treatment" /\ data_before = ScenarioA(4)) =>
          /\ data = data_before
          /\ stats.extended = 0

\* The treatment rule ran on Scenario A with the inclusive end_idx and extended it.
C9_Witness ==
    /\ pc = "treatment"
    /\ data_before = ScenarioA(3)
    /\ data # data_before

(* C10 as stated: every span a rule extends ends with text_span ==         *)
(* source_text[start_idx:end_idx] for its own new start_idx and end_idx,   *)
(* with start_idx unchanged.                                               *)
C10_Original ==
    CalledRule =>
        \A pmid \in DOMAIN data :
            \A i \in 1..Len(data[pmid].entities) :
                WasExtended(pmid, i) =>
                    LET e == data[pmid].entities[i]
                    IN  /\ e.start_idx = data_before[pmid].entities[i].start_idx
                        /\ e.text_span =
                              Slice(TextOf(data[pmid], e), e.start_idx, e.end_idx)

(* C10 amended: every span a rule extends ends with text_span ==           *)
(* source_text[start_idx:end_idx + 1] (end_idx is the index of the last    *)
(* character), with start_idx, location and label unchanged and a larger   *)
(* end_idx; a span that satisfied this inclusive relation before the       *)
(* extension satisfies it after, while a span whose text_span was          *)
(* source_text[start_idx:end_idx] before does not keep that relation.      *)
C10_RoundTripInclusive ==
    CalledRule =>
        \A pmid \in DOMAIN data :
            \A i \in 1..Len(data[pmid].entities) :
                WasExtended(pmid, i) =>
                    LET e    == data[pmid].entities[i]
                        b    == data_before[pmid].entities[i]
                        text == TextOf(data[pmid], e)
                    IN  /\ e.start_idx = b.start_idx
                        /\ e.location = b.location /\ e.label = b.label
                        /\ e.end_idx > b.end_idx
                        /\ e.end_idx < Len(text)
                        /\ e.text_span = Slice(text, e.start_idx, e.end_idx + 1)
                        /\ e.text_span # Slice(text, e.start_idx, e.end_idx)
                        /\ data[pmid].metadata = data_before[pmid].metadata

\* A span that held the inclusive relation before was extended by the intervention
\* rule across more than one whitespace character.
C10_Witness ==
    /\ pc = "intervention"
    /\ \E pmid \in DOMAIN data :
        \E i \in 1..Len(data[pmid].entities) :
            LET e == data[pmid].entities[i]
                b == data_before[pmid].entities[i]
            IN  /\ WasExtended(pmid, i)
                /\ b.text_span = Slice(TextOf(data[pmid], b), b.start_idx, b.end_idx + 1)
                /\ e.end_idx > b.end_idx + Len(intervention) + 1


=============================================================================
